---- MODULE Spec2Model ----
(***************************************************************************)
(* Model of datasets/base_patch_dataset.py: the 2D grid patcher            *)
(* (Grid2DPatchDataset) over one point cloud, its axis-aligned box query,  *)
(* and the multi-cloud aggregator (BaseMultiCloudPatchDataset).            *)
(*                                                                         *)
(* Coordinates are real-valued in the program; the model draws them from   *)
(* an integer lattice and computes quotients exactly (math.ceil of a       *)
(* rational), so no floating-point rounding is modelled.                   *)
(***************************************************************************)
EXTENDS Integers, Sequences, FiniteSets

VARIABLES
    pos,            \* data.pos: the cloud, a sequence of <<x, y, z>>
    blockXDist,     \* Grid2DPatchDataset fields, None until __init__ sets them
    blockYDist,
    contextDist,
    strideXDist,
    strideYDist,
    minPoint,
    maxPoint,
    numBlocksX,
    numBlocksY,
    phase,          \* the patcher: "new" | "ready" | "failed"; "multi": the aggregator
    patch_datasets, \* BaseMultiCloudPatchDataset._patchDataset, as the sources' lengths
    ret             \* outcome of the last call: [op, arg, out, val]

gridFields == <<blockXDist, blockYDist, contextDist, strideXDist, strideYDist,
                minPoint, maxPoint, numBlocksX, numBlocksY>>
vars == <<pos, gridFields, phase, patch_datasets, ret>>

\* ------------------------------------------------------------------ bounds
MaxCoord == 2       \* grid clouds: x and y of a point lie in 0..MaxCoord
MaxPoints == 3      \* grid clouds hold 1..MaxPoints points
MaxBlock == 2       \* blockX, blockY and contextDist lie in 1..MaxBlock
MaxSelCoord == 1    \* box query: coordinates of points and of bounds lie in 0..MaxSelCoord
MaxSelPoints == 2   \* box query: clouds hold 1..MaxSelPoints points
MaxSources == 3     \* the aggregator holds 0..MaxSources sources
MaxLen == 2         \* each source's length lies in 0..MaxLen

None == "None"

\* outcome of a call: out is "value", "None" (fell off the end of the function)
\* or the name of the exception raised
Returned(op, arg, val) == [op |-> op, arg |-> arg, out |-> "value", val |-> val]
ReturnedNone(op, arg) == [op |-> op, arg |-> arg, out |-> "None", val |-> None]
Raised(op, arg, exc) == [op |-> op, arg |-> arg, out |-> exc, val |-> None]

\* ------------------------------------------------------- python arithmetic
Min2(a, b) == IF a <= b THEN a ELSE b

\* math.ceil(a / b) for b # 0, exactly
PyCeilDiv(a, b) == IF b > 0 THEN -((-a) \div b) ELSE -(a \div (-b))

\* divmod(a, b) for b # 0: floor quotient, remainder with the sign of b
PyDivMod(a, b) ==
    LET q == IF b > 0 THEN a \div b ELSE (-a) \div (-b)
    IN  <<q, a - q * b>>

\* ------------------------------------------------- BasePointCloudPatchDataset
SetMin(S) == CHOOSE m \in S : \A v \in S : m <= v
SetMax(S) == CHOOSE m \in S : \A v \in S : m >= v

\* pos.min(dim=0).values, pos.max(dim=0).values
get_bounding_box(p) ==
    LET col(d) == {p[i][d] : i \in 1..Len(p)}
    IN  << <<SetMin(col(1)), SetMin(col(2)), SetMin(col(3))>>,
           <<SetMax(col(1)), SetMax(col(2)), SetMax(col(3))>> >>

\* ---------------------------------------------------------- Grid2DPatchDataset
\* math.ceil(cloudSize / stride): a zero stride gives inf (OverflowError in
\* math.ceil) or, for 0 / 0, nan (ValueError)
NumBlocks(cloudSize, stride) ==
    IF stride = 0
    THEN [exc |-> IF cloudSize = 0 THEN "ValueError" ELSE "OverflowError", val |-> None]
    ELSE [exc |-> "", val |-> PyCeilDiv(cloudSize, stride)]

\* __len__
GridLen == numBlocksX * numBlocksY

\* _get_bounds_for_idx without the torch.min clamp of lines 190-197
BoundsUnclamped(idx) ==
    LET dm == PyDivMod(idx, numBlocksX)
        blockMinY == minPoint[2] + dm[1] * strideYDist
        blockMinX == minPoint[1] + dm[2] * strideXDist
    IN  << <<blockMinX, blockMinY>>,
           <<blockMinX + blockXDist, blockMinY + blockYDist>> >>

_get_bounds_for_idx(idx) ==
    LET dm == PyDivMod(idx, numBlocksX)
        yIndex == dm[1]
        xIndex == dm[2]
        blockMinY == minPoint[2] + yIndex * strideYDist
        blockMinX == minPoint[1] + xIndex * strideXDist
        blockMaxY == Min2(blockMinY + blockYDist, maxPoint[2])
        blockMaxX == Min2(blockMinX + blockXDist, maxPoint[1])
    IN  << <<blockMinX, blockMinY>>, <<blockMaxX, blockMaxY>> >>

\* _get_inner_bounds_for_idx with the signs of the margin swapped
InnerBoundsGrown(idx) ==
    LET b == _get_bounds_for_idx(idx)
    IN  << <<b[1][1] - contextDist, b[1][2] - contextDist>>,
           <<b[2][1] + contextDist, b[2][2] + contextDist>> >>

\* _get_inner_bounds_for_idx with the margin taken off the upper corner only
InnerBoundsMinKept(idx) ==
    LET b == _get_bounds_for_idx(idx)
    IN  << b[1], <<b[2][1] - contextDist, b[2][2] - contextDist>> >>

_get_inner_bounds_for_idx(idx) ==
    LET b == _get_bounds_for_idx(idx)
        xyMin == b[1]
        xyMax == b[2]
    IN  << <<xyMin[1] + contextDist, xyMin[2] + contextDist>>,
           <<xyMax[1] - contextDist, xyMax[2] - contextDist>> >>

\* the mask with the upper comparisons strict (< for <=)
BoxMaskStrictMax(xyMin, xyMax) ==
    [i \in 1..Len(pos) |->
        /\ pos[i][1] >= xyMin[1]
        /\ pos[i][1] < xyMax[1]
        /\ pos[i][2] >= xyMin[2]
        /\ pos[i][2] < xyMax[2]]

\* the boolean mask c1 & c2 & c3 & c4, one entry per point
BoxMask(xyMin, xyMax) ==
    [i \in 1..Len(pos) |->
        /\ pos[i][1] >= xyMin[1]
        /\ pos[i][1] <= xyMax[1]
        /\ pos[i][2] >= xyMin[2]
        /\ pos[i][2] <= xyMax[2]]

\* torch.arange(n)[mask]: the 0-based positions where mask holds, ascending
RECURSIVE ArangeMasked(_, _)
ArangeMasked(mask, n) ==
    IF n = 0 THEN <<>>
    ELSE IF mask[n] THEN Append(ArangeMasked(mask, n - 1), n - 1)
         ELSE ArangeMasked(mask, n - 1)

_get_box_index_arr(xyMin, xyMax) ==
    ArangeMasked(BoxMask(xyMin, xyMax), Len(pos))

_get_block_index_arr(idx) ==
    LET b == _get_bounds_for_idx(idx) IN _get_box_index_arr(b[1], b[2])

_get_inner_block_index_arr(idx) ==
    LET b == _get_inner_bounds_for_idx(idx) IN _get_box_index_arr(b[1], b[2])

\* ------------------------------------------------- BaseMultiCloudPatchDataset
RECURSIVE SumLens(_, _)
SumLens(lens, k) == IF k = 0 THEN 0 ELSE SumLens(lens, k - 1) + lens[k]

\* __len__: sum(len(pd) for pd in self.patch_datasets)
MultiLen == SumLens(patch_datasets, Len(patch_datasets))

\* the test of line 77 with <= for <
BeforeEndInclusive(idx, i, n) == idx <= i + n

\* the test of line 77: idx falls before the end of a source of length n at offset i
BeforeEnd(idx, i, n) == idx < i + n

\* __getitem__: the loop from source k on with running offset i; pds[idx - i]
\* is the call forwarded to source k with local index idx - i; falling off the
\* loop returns None
RECURSIVE MultiScan(_, _, _)
MultiScan(idx, k, i) ==
    IF k > Len(patch_datasets) THEN ReturnedNone("__getitem__", idx)
    ELSE IF BeforeEnd(idx, i, patch_datasets[k])
         THEN Returned("__getitem__", idx, [source |-> k, local |-> idx - i])
         ELSE MultiScan(idx, k + 1, i + patch_datasets[k])

MultiGetItem(idx) == MultiScan(idx, 1, 0)

\* ----------------------------------------------------------------- inputs
\* No computation of the model reads the order of the points except to number
\* them, so clouds are drawn up to reordering: in lexicographic order.
LexLeq(p, q) ==
    \/ p[1] < q[1]
    \/ p[1] = q[1] /\ p[2] < q[2]
    \/ p[1] = q[1] /\ p[2] = q[2] /\ p[3] <= q[3]

CloudsOf(P, maxN) ==
    {c \in UNION {[1..n -> P] : n \in 1..maxN} :
        \A i \in 1..(Len(c) - 1) : LexLeq(c[i], c[i + 1])}

\* the grid never reads z (line 158 drops it): grid clouds are flat
Coords == 0..MaxCoord
GridClouds == CloudsOf(Coords \X Coords \X {0}, MaxPoints)
BlockSizes == 1..MaxBlock

SelCoords == 0..MaxSelCoord
SelClouds == CloudsOf(SelCoords \X SelCoords \X SelCoords, MaxSelPoints)
SelCorners == SelCoords \X SelCoords

SourceLists == UNION {[1..n -> 0..MaxLen] : n \in 0..MaxSources}

NoCall == Returned("none", None, None)

\* the fields __init__ leaves: every assignment up to the first exception
InitFields(p, blockX, blockY, ctx) ==
    LET sx == blockX - ctx
        sy == blockY - ctx
        bb == get_bounding_box(p)
        cloudSizeX == bb[2][1] - bb[1][1]
        cloudSizeY == bb[2][2] - bb[1][2]
        nx == NumBlocks(cloudSizeX, sx)
        ny == NumBlocks(cloudSizeY, sy)
    IN  [blockXDist |-> blockX, blockYDist |-> blockY, contextDist |-> ctx,
         strideXDist |-> sx, strideYDist |-> sy,
         minPoint |-> bb[1], maxPoint |-> bb[2],
         numBlocksX |-> nx.val,
         numBlocksY |-> IF nx.exc # "" THEN None ELSE ny.val,
         exc |-> IF nx.exc # "" THEN nx.exc ELSE ny.exc]

\* ---------------------------------------------------------------- actions
\* Grid2DPatchDataset.__init__(data, blockX, blockY, contextDist)
Construct(blockX, blockY, ctx) ==
    /\ phase = "new"
    /\ LET f == InitFields(pos, blockX, blockY, ctx)
       IN  /\ blockXDist' = f.blockXDist
           /\ blockYDist' = f.blockYDist
           /\ contextDist' = f.contextDist
           /\ strideXDist' = f.strideXDist
           /\ strideYDist' = f.strideYDist
           /\ minPoint' = f.minPoint
           /\ maxPoint' = f.maxPoint
           /\ numBlocksX' = f.numBlocksX
           /\ numBlocksY' = f.numBlocksY
           /\ phase' = IF f.exc = "" THEN "ready" ELSE "failed"
           /\ ret' = IF f.exc = ""
                     THEN Returned("__init__", <<blockX, blockY, ctx>>, None)
                     ELSE Raised("__init__", <<blockX, blockY, ctx>>, f.exc)
    /\ UNCHANGED <<pos, patch_datasets>>

\* indices a caller tries: one below 0, every block, one past the end
QueryIdx == -1 .. (IF GridLen > 0 THEN GridLen ELSE 0)

\* a call that starts with divmod(idx, self.numBlocksX)
Query(op, idx, val) ==
    /\ ret' = IF numBlocksX = 0
              THEN Raised(op, idx, "ZeroDivisionError")
              ELSE Returned(op, idx, val)
    /\ UNCHANGED <<pos, gridFields, phase, patch_datasets>>

GetLen ==
    /\ phase = "ready"
    /\ ret' = Returned("__len__", None, GridLen)
    /\ UNCHANGED <<pos, gridFields, phase, patch_datasets>>

GetBounds ==
    /\ phase = "ready"
    /\ \E idx \in QueryIdx :
          Query("_get_bounds_for_idx", idx, _get_bounds_for_idx(idx))

GetInnerBounds ==
    /\ phase = "ready"
    /\ \E idx \in QueryIdx :
          Query("_get_inner_bounds_for_idx", idx, _get_inner_bounds_for_idx(idx))

GetBlockIndexArr ==
    /\ phase = "ready"
    /\ \E idx \in QueryIdx :
          Query("_get_block_index_arr", idx, _get_block_index_arr(idx))

GetInnerBlockIndexArr ==
    /\ phase = "ready"
    /\ \E idx \in QueryIdx :
          Query("_get_inner_block_index_arr", idx, _get_inner_block_index_arr(idx))

\* _get_box_index_arr(xyMin, xyMax) called with bounds of the caller's choice
GetBoxIndexArr ==
    /\ phase = "ready"
    /\ \E xyMin \in SelCorners, xyMax \in SelCorners :
          ret' = Returned("_get_box_index_arr", <<xyMin, xyMax>>,
                          _get_box_index_arr(xyMin, xyMax))
    /\ UNCHANGED <<pos, gridFields, phase, patch_datasets>>

\* BaseMultiCloudPatchDataset.__len__
MultiGetLen ==
    /\ phase = "multi"
    /\ ret' = Returned("__len__", None, MultiLen)
    /\ UNCHANGED <<pos, gridFields, phase, patch_datasets>>

\* BaseMultiCloudPatchDataset.__getitem__(idx)
MultiGet ==
    /\ phase = "multi"
    /\ \E idx \in -1 .. (MultiLen + 1) : ret' = MultiGetItem(idx)
    /\ UNCHANGED <<pos, gridFields, phase, patch_datasets>>

ValidConfig(blockX, blockY, ctx) ==
    blockX > 0 /\ blockY > 0 /\ ctx > 0 /\ ctx < Min2(blockX, blockY)

ConstructAny ==
    \E bx \in BlockSizes, by \in BlockSizes, c \in BlockSizes : Construct(bx, by, c)

ConstructValid ==
    \E bx \in BlockSizes, by \in BlockSizes, c \in BlockSizes :
        ValidConfig(bx, by, c) /\ Construct(bx, by, c)

\* ---------------------------------------------------------- specifications
Unset ==
    /\ blockXDist = None /\ blockYDist = None /\ contextDist = None
    /\ strideXDist = None /\ strideYDist = None
    /\ minPoint = None /\ maxPoint = None
    /\ numBlocksX = None /\ numBlocksY = None

\* a cloud and a patcher about to be constructed over it
Init ==
    /\ pos \in GridClouds
    /\ Unset
    /\ phase = "new"
    /\ patch_datasets = <<>>
    /\ ret = NoCall

\* the patcher under every configuration of positive sizes
Next ==
    \/ ConstructAny
    \/ GetLen
    \/ GetBounds
    \/ GetInnerBounds
    \/ GetBlockIndexArr
    \/ GetInnerBlockIndexArr

Spec == Init /\ [][Next]_vars

\* the patcher under valid configurations only
NextValid ==
    \/ ConstructValid
    \/ GetBounds
    \/ GetBlockIndexArr
    \/ GetInnerBlockIndexArr

SpecValid == Init /\ [][NextValid]_vars

\* the box query of a patcher constructed over a cloud with elevations
InitSelect ==
    /\ pos \in SelClouds
    /\ LET f == InitFields(pos, 2, 2, 1)
       IN  /\ blockXDist = f.blockXDist
           /\ blockYDist = f.blockYDist
           /\ contextDist = f.contextDist
           /\ strideXDist = f.strideXDist
           /\ strideYDist = f.strideYDist
           /\ minPoint = f.minPoint
           /\ maxPoint = f.maxPoint
           /\ numBlocksX = f.numBlocksX
           /\ numBlocksY = f.numBlocksY
    /\ phase = "ready"
    /\ patch_datasets = <<>>
    /\ ret = NoCall

NextSelect == GetBoxIndexArr

SpecSelect == InitSelect /\ [][NextSelect]_vars

\* the aggregator over sources of the given lengths
InitMulti ==
    /\ pos = <<>>
    /\ Unset
    /\ phase = "multi"
    /\ patch_datasets \in SourceLists
    /\ ret = NoCall

NextMulti ==
    \/ MultiGetLen
    \/ MultiGet

SpecMulti == InitMulti /\ [][NextMulti]_vars
\* ------------------------------------------------------------------ claims
Range(seq) == {seq[i] : i \in 1..Len(seq)}
Max2(a, b) == IF a >= b THEN a ELSE b

\* the least n >= 0 with n * b >= a, for a >= 0 and b > 0: ceil(a / b)
Ceil(a, b) == CHOOSE n \in 0..a : n * b >= a /\ (n - 1) * b < a

Configured == ValidConfig(blockXDist, blockYDist, contextDist)
InGrid(idx) == 0 <= idx /\ idx < GridLen
GridQueryOps == {"_get_bounds_for_idx", "_get_inner_bounds_for_idx",
                 "_get_block_index_arr", "_get_inner_block_index_arr"}

\* C1: for a global index i with 0 <= i < length(), get(i) is the call
\* source_s.get(j) for a pair (s, j) with i = (sum of the lengths of the sources
\* before s) + j and 0 <= j < length(source_s); that pair is the only one, and
\* a source of length 0 is never selected.
C1_GetResolvesByCumulativeLength ==
    (ret.op = "__getitem__" /\ 0 <= ret.arg /\ ret.arg < MultiLen) =>
        /\ ret.out = "value"
        /\ ret.val.source \in 1..Len(patch_datasets)
        /\ 0 <= ret.val.local
        /\ ret.val.local < patch_datasets[ret.val.source]
        /\ SumLens(patch_datasets, ret.val.source - 1) + ret.val.local = ret.arg
        /\ \A s \in 1..Len(patch_datasets) :
             \A j \in 0..(patch_datasets[s] - 1) :
                SumLens(patch_datasets, s - 1) + j = ret.arg
                    => s = ret.val.source /\ j = ret.val.local

\* a get that skipped a source of length 0 on its way to a later source
C1_Witness ==
    /\ ret.op = "__getitem__" /\ ret.out = "value"
    /\ 0 <= ret.arg /\ ret.arg < MultiLen
    /\ ret.val.source = 3
    /\ patch_datasets[1] > 0 /\ patch_datasets[2] = 0
    /\ ret.val.local = patch_datasets[3] - 1

\* C2: get(globalIndex) fails with IndexOutOfRangeError for every globalIndex
\* outside [0, length()): it returns no None and forwards nothing to a source.
C2_GetOutOfRangeFails ==
    (ret.op = "__getitem__" /\ (ret.arg < 0 \/ ret.arg >= MultiLen)) =>
        ret.out = "IndexOutOfRangeError"

\* C3: under a valid configuration the union of pointsInBlock(b) over the
\* blocks b in [0, length()) is the set of all point indices of the cloud.
C3_GridCoverage ==
    (phase = "ready" /\ Configured) =>
        UNION {Range(_get_block_index_arr(b)) : b \in 0..(GridLen - 1)}
            = 0..(Len(pos) - 1)

\* C4: constructing a patcher with contextMargin >= blockWidth or
\* contextMargin >= blockHeight fails: no patcher comes out of it.
C4_InvalidConfigRejected ==
    (ret.op = "__init__" /\ ~ValidConfig(ret.arg[1], ret.arg[2], ret.arg[3])) =>
        /\ ret.out \notin {"value", "None"}
        /\ phase = "failed"

\* C5: under a valid configuration numBlocksX = max(1, ceil(cloudSizeX / strideX)),
\* numBlocksY = max(1, ceil(cloudSizeY / strideY)) and length() is their
\* product, so length() >= 1.
C5_NumBlocksClamped ==
    (phase = "ready" /\ Configured) =>
        /\ numBlocksX = Max2(1, Ceil(maxPoint[1] - minPoint[1], strideXDist))
        /\ numBlocksY = Max2(1, Ceil(maxPoint[2] - minPoint[2], strideYDist))
        /\ GridLen = numBlocksX * numBlocksY
        /\ GridLen >= 1

\* C6: boundsFor, innerBoundsFor, pointsInBlock and innerPointsInBlock fail with
\* IndexOutOfRangeError for every blockIndex outside [0, length()) (stated for
\* a valid configuration over a cloud that has blocks).
C6_BlockIndexOutOfRangeFails ==
    (/\ ret.op \in GridQueryOps
     /\ Configured /\ GridLen >= 1
     /\ ~InGrid(ret.arg)) =>
        ret.out = "IndexOutOfRangeError"

\* C7: select(cloud, bounds) returns exactly the indices i of the points with
\* min.x <= x_i <= max.x and min.y <= y_i <= max.y, whatever their z, each
\* once and each in [0, N), also for degenerate and inverted bounds.
C7_SelectExact ==
    (ret.op = "_get_box_index_arr") =>
        /\ ret.out = "value"
        /\ Range(ret.val) =
             {i \in 0..(Len(pos) - 1) :
                /\ ret.arg[1][1] <= pos[i + 1][1] /\ pos[i + 1][1] <= ret.arg[2][1]
                /\ ret.arg[1][2] <= pos[i + 1][2] /\ pos[i + 1][2] <= ret.arg[2][2]}
        /\ Cardinality(Range(ret.val)) = Len(ret.val)

\* two points of different elevation, one on the upper edge of the bounds and
\* selected, the other outside and left out
C7_Witness ==
    /\ ret.op = "_get_box_index_arr"
    /\ Len(pos) = 2 /\ pos[1][3] # pos[2][3]
    /\ Len(ret.val) = 1
    /\ pos[ret.val[1] + 1][1] = ret.arg[2][1]
    /\ pos[ret.val[1] + 1][2] = ret.arg[2][2]
    /\ ret.arg[1][1] < ret.arg[2][1]

InnerInverted(idx) ==
    LET b == _get_inner_bounds_for_idx(idx)
    IN  b[1][1] > b[2][1] \/ b[1][2] > b[2][2]

\* C8: under a valid configuration, for every block b in [0, length()),
\* innerPointsInBlock(b) is a subset of pointsInBlock(b); where the shrunk
\* bounds have min > max on an axis the inner set is empty and nothing is raised.
C8_InnerWithinOuter ==
    (ret.op = "_get_inner_block_index_arr" /\ InGrid(ret.arg)) =>
        /\ ret.out = "value"
        /\ Range(ret.val) \subseteq Range(_get_block_index_arr(ret.arg))
        /\ InnerInverted(ret.arg) => ret.val = <<>>

\* an inner set that holds a point and leaves out a point of the outer set
C8_Witness ==
    /\ ret.op = "_get_inner_block_index_arr" /\ InGrid(ret.arg)
    /\ ret.val # <<>>
    /\ Len(ret.val) < Len(_get_block_index_arr(ret.arg))

\* C9: under a valid configuration, for every block b in [0, length()) with
\* (row, col) = (b / numBlocksX, b % numBlocksX), the outer bounds are
\* blockMin = (minPoint.x + col*strideX, minPoint.y + row*strideY) and
\* blockMax = (min(blockMinX + blockWidth, maxPoint.x), min(blockMinY +
\* blockHeight, maxPoint.y)), with minPoint.x <= blockMinX <= blockMaxX <=
\* maxPoint.x and minPoint.y <= blockMinY <= blockMaxY <= maxPoint.y.
C9_OuterBoundsWellFormed ==
    (ret.op = "_get_bounds_for_idx" /\ InGrid(ret.arg)) =>
        LET row == ret.arg \div numBlocksX
            col == ret.arg % numBlocksX
            lo == ret.val[1]
            hi == ret.val[2]
        IN  /\ ret.out = "value"
            /\ lo = <<minPoint[1] + col * strideXDist, minPoint[2] + row * strideYDist>>
            /\ hi = <<Min2(lo[1] + blockXDist, maxPoint[1]),
                      Min2(lo[2] + blockYDist, maxPoint[2])>>
            /\ minPoint[1] <= lo[1] /\ lo[1] <= hi[1] /\ hi[1] <= maxPoint[1]
            /\ minPoint[2] <= lo[2] /\ lo[2] <= hi[2] /\ hi[2] <= maxPoint[2]

\* the bounds of a block off the first row and column, cut short by the cloud's
\* extent on both axes
C9_Witness ==
    /\ ret.op = "_get_bounds_for_idx" /\ InGrid(ret.arg)
    /\ ret.arg \div numBlocksX >= 1 /\ ret.arg % numBlocksX >= 1
    /\ ret.val[2][1] < ret.val[1][1] + blockXDist
    /\ ret.val[2][2] < ret.val[1][2] + blockYDist

====
